---- MODULE Spec2Model ----
(***************************************************************************)
(* Livecomment / NG-word moderation handlers of isupipe                    *)
(* (src/go/user_handler.go): postLivecommentHandler and moderateHandler    *)
(* running as transactions against the shared tables livecomments and      *)
(* ng_words.                                                               *)
(*                                                                         *)
(* Strings are tuples of one-character strings, so that the SQL LIKE       *)
(* of the spam check can be computed character by character.               *)
(***************************************************************************)
EXTENDS Integers, Sequences, FiniteSets, TLC

VARIABLES
    livecomments,   \* committed rows of table livecomments
    ng_words,       \* committed rows of table ng_words
    autoinc,        \* AUTO_INCREMENT counters of both tables (not transactional)
    now,            \* time.Now().Unix()
    livecomment_reports, \* committed rows of table livecomment_reports
    users,          \* committed rows of table users
    themes,         \* committed rows of table themes
    icons,          \* committed rows of table icons
    txs,            \* per connection: the request being served and its transaction
    dbConnUnsafe    \* whether dbConn was put in sqlx's unsafe mode when opened

\* the tables of the accounts
accounts == <<users, themes, icons>>

vars == <<livecomments, ng_words, livecomment_reports, accounts, autoinc, now,
         txs, dbConnUnsafe>>

----------------------------------------------------------------------------
(* Bounds of the model *)

MaxComments == 2    \* highest livecomments.id handed out
MaxWords == 2       \* highest ng_words.id handed out
MaxClock == 1       \* highest value of the clock
MaxReports == 2     \* highest livecomment_reports.id handed out
MaxUsers == 3       \* highest users.id handed out
MaxIcons == 2       \* highest icons.id handed out

(* HTTP statuses the handlers answer with *)
StatusOK == 200
StatusCreated == 201
StatusBadRequest == 400
StatusUnauthorized == 401
StatusForbidden == 403
StatusNotFound == 404
StatusInternalServerError == 500

----------------------------------------------------------------------------
(* Inputs *)

Users == {1, 2}
\* users.name of the users the model starts with, and of one more to register
UserNames == <<"u1", "u2", "u3">>
\* table livestreams: stream 1 belongs to user 1, stream 2 to user 2
livestreams == {[id |-> 1, user_id |-> 1], [id |-> 2, user_id |-> 2]}
\* livestream_id path parameters: the two streams and one that does not exist
StreamIds == {1, 2, 3}
\* PostLivecommentRequest.Tip is an int64: a negative, a zero and a positive tip
Tips == {-1, 0, 1}
Bodies == {<<"a">>, <<"A">>, <<"\\">>}
Phrases == {<<"a">>, <<"_">>, <<"\\">>, <<>>}
Conns == {"c1", "c2"}

\* image bytes are tuples of characters, like the other strings
Images == {<<>>, <<"x">>, <<"y">>}

----------------------------------------------------------------------------
(* The spam matcher: text LIKE CONCAT('%', word, '%') *)

\* comparison of two characters under the connection's collation
CollationEq(x, y) == x = y

\* SQL LIKE of text[i..] against pattern pat[j..]: '%' matches any run of
\* characters, '_' any single character, '\' makes the next pattern character
\* literal
RECURSIVE LikeFrom(_, _, _, _)
LikeFrom(text, pat, i, j) ==
    IF j > Len(pat) THEN i > Len(text)
    ELSE IF pat[j] = "%"
        THEN \E k \in i..(Len(text) + 1) : LikeFrom(text, pat, k, j + 1)
    ELSE IF pat[j] = "_"
        THEN i <= Len(text) /\ LikeFrom(text, pat, i + 1, j + 1)
    ELSE IF pat[j] = "\\" /\ j < Len(pat)
        THEN /\ i <= Len(text)
             /\ CollationEq(text[i], pat[j + 1])
             /\ LikeFrom(text, pat, i + 1, j + 2)
    ELSE /\ i <= Len(text)
         /\ CollationEq(text[i], pat[j])
         /\ LikeFrom(text, pat, i + 1, j + 1)

Like(text, pat) == LikeFrom(text, pat, 1, 1)

\* SELECT COUNT(*) FROM (SELECT ? AS text) INNER JOIN (SELECT CONCAT('%', ?, '%')
\* AS pattern) ON text LIKE pattern
hitSpam(comment, word) ==
    IF Like(comment, <<"%">> \o word \o <<"%">>) THEN 1 ELSE 0

\* literal containment, the yardstick of the claims: word occurs in body
Contains(body, word) ==
    \E i \in 0..(Len(body) - Len(word)) :
        \A k \in 1..Len(word) : body[i + k] = word[k]

----------------------------------------------------------------------------
(* Requests and responses *)

\* echo.NewHTTPError(status, message)
HTTPError(status, message) == [status |-> status, body |-> [message |-> message]]

NoResponse == [status |-> 0, body |-> [message |-> ""]]

\* the session of a request: err is the error of session.Get; hasExpires and
\* hasUserID tell whether sess.Values holds EXPIRES and an int64 USERID
NoSession ==
    [err |-> FALSE, hasExpires |-> FALSE, expires |-> 0,
     hasUserID |-> FALSE, userID |-> 0]

\* the session loginHandler saves for user u; it does not expire while the
\* model runs
LoggedIn(u) ==
    [err |-> FALSE, hasExpires |-> TRUE, expires |-> MaxClock,
     hasUserID |-> TRUE, userID |-> u]

\* sessions a request can come with: none, a broken cookie, values missing,
\* expiry at time 0 or at the end of the model's clock
Sessions ==
    {s \in [err : BOOLEAN, hasExpires : BOOLEAN, expires : {0, MaxClock},
            hasUserID : BOOLEAN, userID : Users \cup {0}] :
        /\ s.hasExpires \/ s.expires = 0
        /\ s.hasUserID <=> s.userID # 0
        /\ s.err => s = [NoSession EXCEPT !.err = TRUE]}

\* the expiry of the session not looked at
verifyUserSession_NoExpiry(sess, clock) ==
    IF sess.err
    THEN HTTPError(StatusUnauthorized, "failed to get session")
    ELSE IF ~sess.hasExpires
    THEN HTTPError(StatusForbidden, "failed to get EXPIRES value from session")
    ELSE IF ~sess.hasUserID
    THEN HTTPError(StatusUnauthorized, "failed to get USERID value from session")
    ELSE NoResponse

\* nil is NoResponse
verifyUserSession(sess, clock) ==
    IF sess.err
    THEN HTTPError(StatusUnauthorized, "failed to get session")
    ELSE IF ~sess.hasExpires
    THEN HTTPError(StatusForbidden, "failed to get EXPIRES value from session")
    ELSE IF ~sess.hasUserID
    THEN HTTPError(StatusUnauthorized, "failed to get USERID value from session")
    ELSE IF clock > sess.expires
    THEN HTTPError(StatusUnauthorized, "session has expired")
    ELSE NoResponse

\* requests of the callers of the sessions given; user is the USERID of the
\* session, read by the handler once the session is verified
PostRequestsOf(sessions) ==
    {[sess |-> s, user |-> s.userID, stream |-> l, text |-> b, tip |-> t] :
        s \in sessions, l \in StreamIds, b \in Bodies, t \in Tips}

\* a moderate request carries no tip; the field is kept so that all requests
\* have one shape
ModerateRequestsOf(sessions) ==
    {[sess |-> s, user |-> s.userID, stream |-> l, text |-> p, tip |-> 0] :
        s \in sessions, l \in StreamIds, p \in Phrases}

PostRequests == PostRequestsOf({LoggedIn(u) : u \in Users})
ModerateRequests == ModerateRequestsOf({LoggedIn(u) : u \in Users})

\* strconv.Atoi of a string of the characters the model uses
DigitChars == <<"0", "1", "2", "3", "4", "5", "6", "7", "8", "9">>

DigitValue(ch) == (CHOOSE k \in 1..10 : DigitChars[k] = ch) - 1

RECURSIVE ParseDigits(_, _)
ParseDigits(digits, acc) ==
    IF digits = <<>> THEN acc
    ELSE ParseDigits(Tail(digits), acc * 10 + DigitValue(Head(digits)))

Atoi(str) ==
    LET signed == str # <<>> /\ Head(str) \in {"-", "+"}
        digits == IF signed THEN Tail(str) ELSE str
    IN  IF \/ digits = <<>>
           \/ \E i \in 1..Len(digits) : \A k \in 1..10 : DigitChars[k] # digits[i]
        THEN [err |-> TRUE, n |-> 0]
        ELSE [err |-> FALSE,
              n |-> IF signed /\ Head(str) = "-"
                    THEN 0 - ParseDigits(digits, 0)
                    ELSE ParseDigits(digits, 0)]

\* values of the query parameter limit: absent, not a number, negative, and
\* the numbers up to one past the number of comments there can be
LimitParams ==
    {<<>>, <<"x">>, <<"-", "1">>}
        \cup {<<DigitChars[n + 1]>> : n \in 0..(MaxComments + 1)}

\* the request for the comments of a stream
ListRequestsOf(sessions, streams) ==
    {[sess |-> s, user |-> s.userID, stream |-> l, text |-> <<>>, tip |-> 0,
      limit |-> p] :
        s \in sessions, l \in streams, p \in LimitParams}

\* registerHandler takes no session
RegisterRequestsOf(names) ==
    {[sess |-> NoSession, user |-> 0, stream |-> 0, text |-> <<>>, tip |-> 0,
      name |-> n] : n \in names}

\* the upload of an icon
IconRequestsOf(sessions) ==
    {[sess |-> s, user |-> s.userID, stream |-> 0, text |-> <<>>, tip |-> 0,
      image |-> i] : s \in sessions, i \in Images}

\* the request for the profile of the caller, or of the user of a name
UserRequestsOf(sessions, names) ==
    {[sess |-> s, user |-> s.userID, stream |-> 0, text |-> <<>>, tip |-> 0,
      name |-> n] : s \in sessions, n \in names}

\* the request for the NG words of a stream
NgwordsRequestsOf(sessions, streams) ==
    {[sess |-> s, user |-> s.userID, stream |-> l, text |-> <<>>, tip |-> 0] :
        s \in sessions, l \in streams}

\* a report request names the comment reported
ReportRequestsOf(sessions, streams, livecommentIDs) ==
    {[sess |-> s, user |-> s.userID, stream |-> l, text |-> <<>>, tip |-> 0,
      livecomment |-> id] :
        s \in sessions, l \in streams, id \in livecommentIDs}

NoRequest ==
    [sess |-> NoSession, user |-> 0, stream |-> 0, text |-> <<>>, tip |-> 0]

IdleTx ==
    [op |-> "idle", pc |-> "idle", req |-> NoRequest,
     newComments |-> {}, newWords |-> {}, newReports |-> {}, deleted |-> {},
     newUsers |-> {}, newThemes |-> {}, newIcons |-> {}, deletedIcons |-> {},
     listed |-> <<>>, snapshot |-> {},
     resp |-> NoResponse]

\* a request answered before its transaction wrote anything
Answered(op, req, resp) ==
    [IdleTx EXCEPT !.op = op, !.pc = "done", !.req = req, !.resp = resp]

\* a connection is free when it serves no request
Free(c) == txs[c].pc \in {"idle", "done"}

----------------------------------------------------------------------------
(* Response assembly *)

\* os.ReadFile(fallbackImage): the bytes of ../img/NoImage.jpg
FallbackImageBytes == <<"N", "o", "I", "m", "a", "g", "e">>

\* fmt.Sprintf("%x", sha256.Sum256(image)): one value per byte string
Sha256Hex(image) == [sha256 |-> image]

\* COALESCE(i.image, '') over LEFT JOIN icons i ON u.id = i.user_id: one
\* joined row for each icon row of the user, one with '' when there is none
JoinedImages(iconRows, userID) ==
    IF \A i \in iconRows : i.user_id # userID
    THEN {<<>>}
    ELSE {i.image : i \in {x \in iconRows : x.user_id = userID}}

\* if len(image) == 0 { image, err = os.ReadFile(fallbackImage) }
OrFallback(image) == IF Len(image) = 0 THEN FallbackImageBytes ELSE image

\* SELECT ... FROM users u LEFT JOIN themes t ... LEFT JOIN icons i ... WHERE
\* u.id = ?, the fallback image for an empty one: the users the scan can give
fetchUserDetailsByID(userID) ==
    {[id |-> u.id, name |-> u.name,
      icon_hash |-> Sha256Hex(OrFallback(image))] :
        u \in {x \in users : x.id = userID},
        image \in JoinedImages(icons, userID)}

\* the same with WHERE u.name = ?
fetchUserDetailsByName(username) ==
    {[id |-> u.id, name |-> u.name,
      icon_hash |-> Sha256Hex(OrFallback(image))] :
        u \in {x \in users : x.name = username},
        image \in UNION {JoinedImages(icons, x.id) :
                            x \in {y \in users : y.name = username}}}

\* SELECT ... COALESCE(i.image, '') FROM themes t LEFT JOIN icons i ... WHERE
\* t.user_id = ?: the fallback image is read only when the query has no row
fillUserResponseForRegisterHandler(themeRows, iconRows, userModel) ==
    LET rows == {image \in JoinedImages(iconRows, userModel.id) :
                    \E t \in themeRows : t.user_id = userModel.id}
        image == IF rows = {} THEN FallbackImageBytes
                 ELSE CHOOSE r \in rows : TRUE
    IN  [id |-> userModel.id, name |-> userModel.name,
         icon_hash |-> Sha256Hex(image)]

\* SELECT image FROM icons WHERE user_id = ?: the fallback image is read only
\* on sql.ErrNoRows
fillUserResponse(iconRows, userModel) ==
    LET rows == {i.image : i \in {x \in iconRows : x.user_id = userModel.id}}
        image == IF rows = {} THEN FallbackImageBytes
                 ELSE CHOOSE r \in rows : TRUE
    IN  [id |-> userModel.id, name |-> userModel.name,
         icon_hash |-> Sha256Hex(image)]

\* SELECT u.*, ..., COALESCE(i.image, '') AS icon ... WHERE u.id = ?: the icon
\* of a row found is hashed as it is
fetchUserDetailsByIDForReaction(userID) ==
    {[id |-> u.id, name |-> u.name, icon_hash |-> Sha256Hex(image)] :
        u \in {x \in users : x.id = userID},
        image \in JoinedImages(icons, userID)}

\* the joined row of one comment: SELECT ... FROM livecomments lc LEFT JOIN
\* users u ... LEFT JOIN icons i ... LEFT JOIN livestreams ls ... WHERE lc.id = ?
getLivecommentData(comments, livecommentID) ==
    {[livecomment_id |-> lc.id, comment |-> lc.comment, tip |-> lc.tip,
      created_at |-> lc.created_at, user_id |-> lc.user_id,
      user_image |-> image, livestream_id |-> lc.livestream_id] :
        lc \in {x \in comments : x.id = livecommentID},
        image \in UNION {JoinedImages(icons, x.user_id) :
                            x \in {y \in comments : y.id = livecommentID}}}

\* the query selects tag_id and tag_name, for which LivecommentResponse has no
\* field: tx.GetContext returns "missing destination name tag_id" unless dbConn
\* is in unsafe mode
MissingDestinationIsError == ~dbConnUnsafe

fillLivecommentResponse(lr) ==
    LET commentOwner ==
            [id |-> lr.user_id,
             icon_hash |-> Sha256Hex(OrFallback(lr.user_image))]
    IN  [id |-> lr.livecomment_id,
         user |-> commentOwner,
         livestream |-> [id |-> lr.livestream_id, owner |-> commentOwner],
         comment |-> lr.comment, tip |-> lr.tip, created_at |-> lr.created_at]

\* getLivecommentsHandler without a limit: the comments of the stream, each
\* assembled as in a submission's response
getLivecomments(comments, livestreamID) ==
    {fillLivecommentResponse(d) :
        d \in UNION {getLivecommentData(comments, lc.id) :
                        lc \in {x \in comments : x.livestream_id = livestreamID}}}

----------------------------------------------------------------------------
(* postLivecommentHandler *)

\* the NG words the spam check reads: those of the stream and of its owner
PostNGWords(words, livestreamModel) ==
    {w \in words : w.user_id = livestreamModel.user_id
                   /\ w.livestream_id = livestreamModel.id}

\* some NG word hits the comment (the loop returns at the first hit)
IsSpam(comment, ngwords) == \E w \in ngwords : hitSpam(comment, w.word) >= 1

NewLivecomment(req, id, createdAt) ==
    [id |-> id, user_id |-> req.user, livestream_id |-> req.stream,
     comment |-> req.text, tip |-> req.tip, created_at |-> createdAt]

\* the stream of the request taken as given, without the lookup
PostOutcome_NoStreamLookup(req) ==
    LET found == {[id |-> req.stream, user_id |-> req.user]}
    IN  IF found = {}
        THEN Answered("post", req, HTTPError(StatusNotFound, "livestream not found"))
        ELSE LET livestreamModel == CHOOSE l \in found : TRUE
                 ngwords == PostNGWords(ng_words, livestreamModel)
                 row == NewLivecomment(req, autoinc.livecomments, now)
                 data == getLivecommentData(livecomments \cup {row}, row.id)
             IN  IF IsSpam(req.text, ngwords)
                 THEN Answered("post", req,
                        HTTPError(StatusBadRequest, "spam"))
                 ELSE IF MissingDestinationIsError
                 THEN Answered("post", req,
                        HTTPError(StatusInternalServerError,
                                  "failed to get livecomment"))
                 ELSE IF data = {}
                 THEN Answered("post", req,
                        HTTPError(StatusNotFound,
                                  "not found livecomment with the specified ID"))
                 ELSE [IdleTx EXCEPT
                         !.op = "post", !.pc = "open", !.req = req,
                         !.newComments = {row},
                         !.resp = [status |-> StatusCreated,
                                    body |-> fillLivecommentResponse(
                                               CHOOSE d \in data : TRUE)]]

\* the handler up to the point where its transaction holds an uncommitted
\* insert, or up to an early return
PostOutcome(req) ==
    LET found == {l \in livestreams : l.id = req.stream}
    IN  IF found = {}
        THEN Answered("post", req, HTTPError(StatusNotFound, "livestream not found"))
        ELSE LET livestreamModel == CHOOSE l \in found : TRUE
                 ngwords == PostNGWords(ng_words, livestreamModel)
                 row == NewLivecomment(req, autoinc.livecomments, now)
                 data == getLivecommentData(livecomments \cup {row}, row.id)
             IN  IF IsSpam(req.text, ngwords)
                 THEN Answered("post", req,
                        HTTPError(StatusBadRequest, "spam"))
                 ELSE IF MissingDestinationIsError
                 THEN Answered("post", req,
                        HTTPError(StatusInternalServerError,
                                  "failed to get livecomment"))
                 ELSE IF data = {}
                 THEN Answered("post", req,
                        HTTPError(StatusNotFound,
                                  "not found livecomment with the specified ID"))
                 ELSE [IdleTx EXCEPT
                         !.op = "post", !.pc = "open", !.req = req,
                         !.newComments = {row},
                         !.resp = [status |-> StatusCreated,
                                    body |-> fillLivecommentResponse(
                                               CHOOSE d \in data : TRUE)]]

BeginPost(c, req) ==
    /\ Free(c)
    /\ autoinc.livecomments <= MaxComments
    /\ LET refused == verifyUserSession(req.sess, now)
           tx == IF refused # NoResponse
                 THEN Answered("post", req, refused)
                 ELSE PostOutcome(req)
       IN  /\ txs' = [txs EXCEPT ![c] = tx]
           /\ autoinc' = IF tx.pc = "open"
                         THEN [autoinc EXCEPT !.livecomments = @ + 1]
                         ELSE autoinc
    /\ UNCHANGED <<accounts, livecomment_reports, livecomments, ng_words, now,
                   dbConnUnsafe>>

----------------------------------------------------------------------------
(* moderateHandler *)

NewNGWord(req, id, createdAt) ==
    [id |-> id, user_id |-> req.user, livestream_id |-> req.stream,
     word |-> req.text, created_at |-> createdAt]

\* SELECT * FROM ng_words WHERE livestream_id = ?
ModerateNGWords(words, livestreamID) ==
    {w \in words : w.livestream_id = livestreamID}

\* the DELETE without its livestream_id condition
PurgedIds_AnyStream(comments, ngwords, livestreamID) ==
    {lc.id : lc \in {x \in comments :
        \E w \in ngwords : hitSpam(x.comment, w.word) >= 1}}

\* the ids the DELETE statements of the purge remove: every comment read by
\* SELECT * FROM livecomments is tried against every NG word, and the DELETE
\* takes it when it is of the stream and the word hits it
PurgedIds(comments, ngwords, livestreamID) ==
    {lc.id : lc \in {x \in comments :
        /\ x.livestream_id = livestreamID
        /\ \E w \in ngwords : hitSpam(x.comment, w.word) >= 1}}

\* the ownership check without its user_id condition
ModerateOutcome_AnyCallerOfStream(req) ==
    LET ownedLivestreams ==
            {l \in livestreams : l.id = req.stream}
        row == NewNGWord(req, autoinc.ng_words, now)
        ngwords == ModerateNGWords(ng_words \cup {row}, req.stream)
    IN  IF ownedLivestreams = {}
        THEN Answered("moderate", req,
               HTTPError(StatusBadRequest,
                 "A streamer can't moderate livestreams that other streamers own"))
        ELSE [IdleTx EXCEPT
                !.op = "moderate", !.pc = "open", !.req = req,
                !.newWords = {row},
                !.deleted = PurgedIds(livecomments, ngwords, req.stream),
                !.resp = [status |-> StatusCreated, body |-> [word_id |-> row.id]]]

\* RowsAffected() of the insert answered in place of LastInsertId()
ModerateOutcome_RowsAffectedAsId(req) ==
    LET ownedLivestreams ==
            {l \in livestreams : l.id = req.stream /\ l.user_id = req.user}
        row == NewNGWord(req, autoinc.ng_words, now)
        ngwords == ModerateNGWords(ng_words \cup {row}, req.stream)
    IN  IF ownedLivestreams = {}
        THEN Answered("moderate", req,
               HTTPError(StatusBadRequest,
                 "A streamer can't moderate livestreams that other streamers own"))
        ELSE [IdleTx EXCEPT
                !.op = "moderate", !.pc = "open", !.req = req,
                !.newWords = {row},
                !.deleted = PurgedIds(livecomments, ngwords, req.stream),
                !.resp = [status |-> StatusCreated, body |-> [word_id |-> 1]]]

ModerateOutcome(req) ==
    LET ownedLivestreams ==
            {l \in livestreams : l.id = req.stream /\ l.user_id = req.user}
        row == NewNGWord(req, autoinc.ng_words, now)
        ngwords == ModerateNGWords(ng_words \cup {row}, req.stream)
    IN  IF ownedLivestreams = {}
        THEN Answered("moderate", req,
               HTTPError(StatusBadRequest,
                 "A streamer can't moderate livestreams that other streamers own"))
        ELSE [IdleTx EXCEPT
                !.op = "moderate", !.pc = "open", !.req = req,
                !.newWords = {row},
                !.deleted = PurgedIds(livecomments, ngwords, req.stream),
                !.resp = [status |-> StatusCreated, body |-> [word_id |-> row.id]]]

BeginModerate(c, req) ==
    /\ Free(c)
    /\ autoinc.ng_words <= MaxWords
    /\ LET refused == verifyUserSession(req.sess, now)
           tx == IF refused # NoResponse
                 THEN Answered("moderate", req, refused)
                 ELSE ModerateOutcome(req)
       IN  /\ txs' = [txs EXCEPT ![c] = tx]
           /\ autoinc' = IF tx.pc = "open"
                         THEN [autoinc EXCEPT !.ng_words = @ + 1]
                         ELSE autoinc
    /\ UNCHANGED <<accounts, livecomment_reports, livecomments, ng_words, now,
                   dbConnUnsafe>>

----------------------------------------------------------------------------
(* getNgwords *)

\* the sequences that ORDER BY created_at DESC can return for a set of rows:
\* rows of one created_at come in any order
OrderByCreatedAtDesc(rows) ==
    {sq \in [1..Cardinality(rows) -> rows] :
        /\ \A i, j \in 1..Cardinality(rows) : i # j => sq[i] # sq[j]
        /\ \A i, j \in 1..Cardinality(rows) :
              i < j => sq[i].created_at >= sq[j].created_at}

\* SELECT * FROM ng_words WHERE user_id = ? AND livestream_id = ? ORDER BY
\* created_at DESC, answered as it is; list is the JSON array of the response
GetNgwords(c, req) ==
    /\ Free(c)
    /\ LET refused == verifyUserSession(req.sess, now)
           rows == {w \in ng_words :
                      w.user_id = req.user /\ w.livestream_id = req.stream}
       IN  IF refused # NoResponse
           THEN txs' = [txs EXCEPT ![c] = Answered("ngwords", req, refused)]
           ELSE \E ngWords \in OrderByCreatedAtDesc(rows) :
                  txs' = [txs EXCEPT ![c] =
                            Answered("ngwords", req,
                                     [status |-> StatusOK,
                                      body |-> [list |-> ngWords]])]
    /\ UNCHANGED <<accounts, livecomments, ng_words, livecomment_reports, autoinc, now,
                   dbConnUnsafe>>

----------------------------------------------------------------------------
(* getLivecommentsHandler *)

Min(a, b) == IF a <= b THEN a ELSE b

\* the handler up to its SELECT * FROM livecomments WHERE livestream_id = ?
\* ORDER BY created_at DESC [LIMIT n]; limit is written into the query as
\* Atoi returned it, and MySQL refuses a negative LIMIT
BeginList(c, req) ==
    /\ Free(c)
    /\ LET refused == verifyUserSession(req.sess, now)
           present == req.limit # <<>>
           limit == Atoi(req.limit)
           rows == {lc \in livecomments : lc.livestream_id = req.stream}
       IN  IF refused # NoResponse
           THEN txs' = [txs EXCEPT ![c] = Answered("list", req, refused)]
           ELSE IF present /\ limit.err
           THEN txs' = [txs EXCEPT ![c] =
                    Answered("list", req,
                      HTTPError(StatusBadRequest,
                                "limit query parameter must be integer"))]
           ELSE IF present /\ limit.n < 0
           THEN txs' = [txs EXCEPT ![c] =
                    Answered("list", req,
                      HTTPError(StatusInternalServerError,
                                "failed to get livecomments"))]
           ELSE \E order \in OrderByCreatedAtDesc(rows) :
                  txs' = [txs EXCEPT ![c] =
                    [IdleTx EXCEPT
                       !.op = "list", !.pc = "listing", !.req = req,
                       !.listed = IF present
                                  THEN SubSeq(order, 1, Min(limit.n, Len(order)))
                                  ELSE order,
                       !.snapshot = livecomments]]
    /\ UNCHANGED <<accounts, livecomments, ng_words, livecomment_reports, autoinc, now,
                   dbConnUnsafe>>

\* the comment table as the reads of an open transaction see it: the snapshot
\* of its first read under REPEATABLE READ, the committed rows under READ
\* COMMITTED
ReadView(c, isolation) ==
    IF isolation = "REPEATABLE-READ" THEN txs[c].snapshot ELSE livecomments

\* the loop over the rows selected: getLivecommentData and
\* fillLivecommentResponse for each, then Commit and the answer
FinishList(c, isolation) ==
    /\ txs[c].op = "list" /\ txs[c].pc = "listing"
    /\ LET listed == txs[c].listed
           view == ReadView(c, isolation)
           resp ==
             IF listed = <<>>
             THEN [status |-> StatusOK, body |-> [list |-> <<>>]]
             ELSE IF MissingDestinationIsError
             THEN HTTPError(StatusInternalServerError, "failed to get livecomment")
             ELSE IF \E i \in 1..Len(listed) :
                        getLivecommentData(view, listed[i].id) = {}
             THEN HTTPError(StatusNotFound,
                            "not found livecomment with the specified ID")
             ELSE [status |-> StatusOK,
                   body |-> [list |->
                     [i \in 1..Len(listed) |->
                        fillLivecommentResponse(
                          CHOOSE d \in getLivecommentData(view, listed[i].id) :
                            TRUE)]]]
       IN  txs' = [txs EXCEPT ![c].pc = "done", ![c].snapshot = {},
                              ![c].resp = resp]
    /\ UNCHANGED <<accounts, livecomments, ng_words, livecomment_reports, autoinc, now,
                   dbConnUnsafe>>

----------------------------------------------------------------------------
(* reportLivecommentHandler *)

NewLivecommentReport(req, id, createdAt) ==
    [id |-> id, user_id |-> req.user, livestream_id |-> req.stream,
     livecomment_id |-> req.livecomment, created_at |-> createdAt]

\* the joined row of one report: SELECT ... FROM livecomment_reports lr LEFT
\* JOIN users ru ... LEFT JOIN livecomments lc ON lr.livecomment_id = lc.id ...
\* WHERE lr.id = ?; a report whose comment is gone joins NULLs, which do not
\* scan into the int64 and string fields
getLivecommentReportData(reports, comments, reportID) ==
    {[report_id |-> lr.id, reporter_id |-> lr.user_id,
      reporter_image |-> reporterImage,
      report_created_at |-> lr.created_at,
      livecomment_id |-> lc.id, comment |-> lc.comment, tip |-> lc.tip,
      livecomment_created_at |-> lc.created_at,
      livecomment_user_id |-> lc.user_id, lc_user_image |-> lcUserImage,
      livestream_id |-> lc.livestream_id] :
        lr \in {x \in reports : x.id = reportID},
        lc \in {y \in comments :
                  \E x \in reports : x.id = reportID /\ x.livecomment_id = y.id},
        reporterImage \in UNION {JoinedImages(icons, x.user_id) :
                                   x \in {z \in reports : z.id = reportID}},
        lcUserImage \in UNION {JoinedImages(icons, y.user_id) :
            y \in {z \in comments :
                     \E x \in reports :
                         x.id = reportID /\ x.livecomment_id = z.id}}}

fillLivecommentReportResponse(rr) ==
    LET reporter ==
            [id |-> rr.reporter_id,
             icon_hash |-> Sha256Hex(OrFallback(rr.reporter_image))]
        commentOwner ==
            [id |-> rr.livecomment_user_id,
             icon_hash |-> Sha256Hex(OrFallback(rr.lc_user_image))]
    IN  [id |-> rr.report_id,
         reporter |-> reporter,
         livecomment |->
            [id |-> rr.livecomment_id,
             user |-> commentOwner,
             livestream |-> [id |-> rr.livestream_id, owner |-> commentOwner],
             comment |-> rr.comment, tip |-> rr.tip,
             created_at |-> rr.livecomment_created_at],
         created_at |-> rr.report_created_at]

\* no comment lookup before the insert
ReportOutcome_NoCommentLookup(req) ==
    LET row == NewLivecommentReport(req, autoinc.livecomment_reports, now)
    IN  IF \A l \in livestreams : l.id # req.stream
        THEN Answered("report", req,
               HTTPError(StatusNotFound, "livestream not found"))
        ELSE [IdleTx EXCEPT !.op = "report", !.pc = "open", !.req = req,
                            !.newReports = {row},
                            !.resp = [status |-> StatusCreated,
                                      body |-> [id |-> row.id]]]

\* a second report of the same comment by the same user refused
ReportOutcome_OncePerUser(req) ==
    LET row == NewLivecommentReport(req, autoinc.livecomment_reports, now)
        data == getLivecommentReportData(livecomment_reports \cup {row},
                                         livecomments, row.id)
    IN  IF \/ \A l \in livestreams : l.id # req.stream
           \/ \A lc \in livecomments : lc.id # req.livecomment
           \/ data = {}
        THEN Answered("report", req,
               HTTPError(StatusNotFound, "livecomment not found"))
        ELSE IF \E r \in livecomment_reports :
                    r.user_id = req.user /\ r.livecomment_id = req.livecomment
        THEN Answered("report", req,
               HTTPError(StatusBadRequest, "already reported"))
        ELSE [IdleTx EXCEPT !.op = "report", !.pc = "open", !.req = req,
                            !.newReports = {row},
                            !.resp = [status |-> StatusCreated,
                                      body |-> fillLivecommentReportResponse(
                                                 CHOOSE d \in data : TRUE)]]

\* the handler up to the point where its transaction holds an uncommitted
\* insert, or up to an early return
\* the report takes the reported comment out
ReportOutcome_RemovesComment(req) ==
    LET row == NewLivecommentReport(req, autoinc.livecomment_reports, now)
    IN  IF \/ \A l \in livestreams : l.id # req.stream
           \/ \A lc \in livecomments : lc.id # req.livecomment
        THEN Answered("report", req,
               HTTPError(StatusNotFound, "livecomment not found"))
        ELSE [IdleTx EXCEPT !.op = "report", !.pc = "open", !.req = req,
                            !.newReports = {row},
                            !.deleted = {req.livecomment},
                            !.resp = [status |-> StatusCreated,
                                      body |-> [id |-> row.id]]]

ReportOutcome(req) ==
    LET row == NewLivecommentReport(req, autoinc.livecomment_reports, now)
        data == getLivecommentReportData(livecomment_reports \cup {row},
                                         livecomments, row.id)
    IN  IF \A l \in livestreams : l.id # req.stream
        THEN Answered("report", req,
               HTTPError(StatusNotFound, "livestream not found"))
        ELSE IF \A lc \in livecomments : lc.id # req.livecomment
        THEN Answered("report", req,
               HTTPError(StatusNotFound, "livecomment not found"))
        ELSE IF data = {}
        THEN Answered("report", req,
               HTTPError(StatusNotFound,
                         "not found livecomment report with the specified ID"))
        ELSE [IdleTx EXCEPT !.op = "report", !.pc = "open", !.req = req,
                            !.newReports = {row},
                            !.resp = [status |-> StatusCreated,
                                      body |-> fillLivecommentReportResponse(
                                                 CHOOSE d \in data : TRUE)]]

BeginReport(c, req) ==
    /\ Free(c)
    /\ autoinc.livecomment_reports <= MaxReports
    /\ LET refused == verifyUserSession(req.sess, now)
           tx == IF refused # NoResponse
                 THEN Answered("report", req, refused)
                 ELSE ReportOutcome(req)
       IN  /\ txs' = [txs EXCEPT ![c] = tx]
           /\ autoinc' = IF tx.pc = "open"
                         THEN [autoinc EXCEPT !.livecomment_reports = @ + 1]
                         ELSE autoinc
    /\ UNCHANGED <<accounts, livecomments, ng_words, livecomment_reports, now,
                   dbConnUnsafe>>

----------------------------------------------------------------------------
(* registerHandler, postIconHandler, getMeHandler, getUserHandler *)

\* the user row inserted with no theme row
RegisterOutcome_NoTheme(req) ==
    LET userModel == [id |-> autoinc.users, name |-> req.name]
    IN  IF req.name = "pipe" \/ \E u \in users : u.name = req.name
        THEN Answered("register", req,
               HTTPError(StatusBadRequest, "the username 'pipe' is reserved"))
        ELSE [IdleTx EXCEPT
                !.op = "register", !.pc = "open", !.req = req,
                !.newUsers = {userModel},
                !.resp = [status |-> StatusCreated,
                          body |-> fillUserResponseForRegisterHandler(
                                     themes, icons, userModel)]]

\* the handler up to the point where its transaction holds the uncommitted
\* user and theme rows, or up to an early return; users.name is UNIQUE, and the
\* INSERT that fails on it has taken its AUTO_INCREMENT value
RegisterOutcome(req) ==
    LET userModel == [id |-> autoinc.users, name |-> req.name]
        themeModel == [id |-> autoinc.users, user_id |-> autoinc.users,
                       dark_mode |-> FALSE]
    IN  IF req.name = "pipe"
        THEN Answered("register", req,
               HTTPError(StatusBadRequest, "the username 'pipe' is reserved"))
        ELSE IF \E u \in users : u.name = req.name
        THEN Answered("register", req,
               HTTPError(StatusInternalServerError, "failed to insert user"))
        ELSE [IdleTx EXCEPT
                !.op = "register", !.pc = "open", !.req = req,
                !.newUsers = {userModel}, !.newThemes = {themeModel},
                !.resp = [status |-> StatusCreated,
                          body |-> fillUserResponseForRegisterHandler(
                                     themes \cup {themeModel}, icons, userModel)]]

BeginRegister(c, req) ==
    /\ Free(c)
    /\ autoinc.users <= MaxUsers
    /\ LET tx == RegisterOutcome(req)
       IN  /\ txs' = [txs EXCEPT ![c] = tx]
           /\ autoinc' = IF req.name # "pipe"
                         THEN [autoinc EXCEPT !.users = @ + 1]
                         ELSE autoinc
    /\ UNCHANGED <<accounts, livecomments, ng_words, livecomment_reports, now,
                   dbConnUnsafe>>

\* another transaction holds the lock of an icon row of the user: of a row
\* it deleted or of the row it inserted, neither committed yet
IconRowLocked(c, userID) ==
    \E d \in Conns \ {c} :
        /\ txs[d].op = "icon" /\ txs[d].pc \in {"deleted", "open"}
        /\ txs[d].req.user = userID
        /\ txs[d].deletedIcons # {} \/ txs[d].newIcons # {}

\* DELETE FROM icons WHERE user_id = ?: the statement waits for the lock of
\* every row of the user it reads, and deletes the rows committed by then
BeginPostIcon(c, req) ==
    /\ Free(c)
    /\ autoinc.icons
         + Cardinality({d \in Conns : txs[d].pc = "deleted"}) <= MaxIcons
    /\ LET refused == verifyUserSession(req.sess, now)
       IN  IF refused # NoResponse
           THEN txs' = [txs EXCEPT ![c] = Answered("icon", req, refused)]
           ELSE /\ ~IconRowLocked(c, req.user)
                /\ txs' = [txs EXCEPT ![c] =
                     [IdleTx EXCEPT
                        !.op = "icon", !.pc = "deleted", !.req = req,
                        !.deletedIcons =
                           {i.id : i \in {x \in icons : x.user_id = req.user}}]]
    /\ UNCHANGED <<accounts, livecomments, ng_words, livecomment_reports,
                   autoinc, now, dbConnUnsafe>>

\* the transactions whose DELETE found no row of the same user and that have
\* not inserted yet: under REPEATABLE READ each holds a gap lock
GapLockHolders(c) ==
    {d \in Conns \ {c} :
        /\ txs[d].op = "icon" /\ txs[d].pc = "deleted"
        /\ txs[d].req.user = txs[c].req.user}

\* INSERT INTO icons (user_id, image) VALUES (?, ?) and LastInsertId. Under
\* REPEATABLE READ the insert waits for the gap lock of another transaction,
\* whose insert waits for this one's: the server rolls one of the two back
InsertIcon(c, isolation) ==
    /\ txs[c].op = "icon" /\ txs[c].pc = "deleted"
    /\ LET row == [id |-> autoinc.icons, user_id |-> txs[c].req.user,
                   image |-> txs[c].req.image]
           inserted == [txs[c] EXCEPT
                          !.pc = "open", !.newIcons = {row},
                          !.resp = [status |-> StatusCreated,
                                    body |-> [id |-> row.id]]]
           deadlock == HTTPError(StatusInternalServerError,
                                 "failed to insert new user icon")
       IN  IF isolation = "REPEATABLE-READ" /\ GapLockHolders(c) # {}
           THEN \E victim \in {c} \cup GapLockHolders(c) :
                  IF victim = c
                  THEN /\ txs' = [txs EXCEPT ![c].pc = "done",
                                             ![c].resp = deadlock]
                       /\ autoinc' = autoinc
                  ELSE /\ txs' = [txs EXCEPT ![c] = inserted,
                                             ![victim].pc = "done",
                                             ![victim].resp = deadlock]
                       /\ autoinc' = [autoinc EXCEPT !.icons = @ + 1]
           ELSE /\ txs' = [txs EXCEPT ![c] = inserted]
                /\ autoinc' = [autoinc EXCEPT !.icons = @ + 1]
    /\ UNCHANGED <<accounts, livecomments, ng_words, livecomment_reports, now,
                   dbConnUnsafe>>

\* the answer of getMeHandler and getUserHandler for the users found
UserAnswer(op, req, found, notFound) ==
    IF found = {}
    THEN {Answered(op, req, HTTPError(StatusNotFound, notFound))}
    ELSE {Answered(op, req, [status |-> StatusOK, body |-> u]) : u \in found}

GetMe(c, req) ==
    /\ Free(c)
    /\ LET refused == verifyUserSession(req.sess, now)
       IN  IF refused # NoResponse
           THEN txs' = [txs EXCEPT ![c] = Answered("me", req, refused)]
           ELSE \E tx \in UserAnswer("me", req, fetchUserDetailsByID(req.user),
                          "not found user that has the userid in session") :
                  txs' = [txs EXCEPT ![c] = tx]
    /\ UNCHANGED <<accounts, livecomments, ng_words, livecomment_reports,
                   autoinc, now, dbConnUnsafe>>

GetUser(c, req) ==
    /\ Free(c)
    /\ LET refused == verifyUserSession(req.sess, now)
       IN  IF refused # NoResponse
           THEN txs' = [txs EXCEPT ![c] = Answered("user", req, refused)]
           ELSE \E tx \in UserAnswer("user", req,
                          fetchUserDetailsByName(req.name),
                          "not found user that has the given username") :
                  txs' = [txs EXCEPT ![c] = tx]
    /\ UNCHANGED <<accounts, livecomments, ng_words, livecomment_reports,
                   autoinc, now, dbConnUnsafe>>

----------------------------------------------------------------------------
(* Transactions *)

\* tx.Commit(): the writes of the transaction become visible, and the handler
\* answers
Commit(c) ==
    /\ txs[c].pc = "open"
    /\ livecomments' =
         {lc \in livecomments : lc.id \notin txs[c].deleted} \cup txs[c].newComments
    /\ ng_words' = ng_words \cup txs[c].newWords
    /\ livecomment_reports' = livecomment_reports \cup txs[c].newReports
    /\ users' = users \cup txs[c].newUsers
    /\ themes' = themes \cup txs[c].newThemes
    /\ icons' =
         {i \in icons : i.id \notin txs[c].deletedIcons} \cup txs[c].newIcons
    /\ txs' = [txs EXCEPT ![c].pc = "done"]
    /\ UNCHANGED <<autoinc, now, dbConnUnsafe>>

\* statements that can fail once the transaction has written: the error is
\* answered with status 500
AbortSteps(op) ==
    IF op = "post"
    THEN {"failed to get livecomment", "failed to commit"}
    ELSE IF op = "report"
    THEN {"failed to fill livecomment report", "failed to commit"}
    ELSE IF op = "register"
    THEN {"failed to insert user theme", "pdnsutil add-record failed",
          "failed to fill user", "failed to commit"}
    ELSE IF op = "icon"
    THEN {"failed to get last inserted icon id", "failed to commit"}
    ELSE {"failed to delete old livecomments that hit spams", "failed to commit"}

\* the phrase inserted outside the transaction: a rollback leaves it
Abort_KeepsPhrase(c, step) ==
    /\ txs[c].pc = "open"
    /\ step \in AbortSteps(txs[c].op)
    /\ txs' = [txs EXCEPT ![c].pc = "done",
                          ![c].resp = HTTPError(StatusInternalServerError, step)]
    /\ ng_words' = ng_words \cup txs[c].newWords
    /\ UNCHANGED <<accounts, livecomment_reports, livecomments, autoinc, now,
                   dbConnUnsafe>>

\* the comment or report inserted outside the transaction: a rollback leaves it
Abort_KeepsRow(c, step) ==
    /\ txs[c].pc = "open"
    /\ step \in AbortSteps(txs[c].op)
    /\ txs' = [txs EXCEPT ![c].pc = "done",
                          ![c].resp = HTTPError(StatusInternalServerError, step)]
    /\ livecomments' = livecomments \cup txs[c].newComments
    /\ livecomment_reports' = livecomment_reports \cup txs[c].newReports
    /\ UNCHANGED <<accounts, ng_words, autoinc, now, dbConnUnsafe>>

\* a statement fails: the handler returns 500 and the deferred tx.Rollback()
\* drops what the transaction wrote
Abort(c, step) ==
    /\ txs[c].pc = "open"
    /\ step \in AbortSteps(txs[c].op)
    /\ txs' = [txs EXCEPT ![c].pc = "done",
                          ![c].resp = HTTPError(StatusInternalServerError, step)]
    /\ UNCHANGED <<accounts, livecomment_reports, livecomments, ng_words,
                   autoinc, now, dbConnUnsafe>>

Tick ==
    /\ now < MaxClock
    /\ now' = now + 1
    /\ UNCHANGED <<accounts, livecomment_reports, livecomments, ng_words,
                   autoinc, txs, dbConnUnsafe>>

----------------------------------------------------------------------------
(* Specifications *)

Init ==
    /\ livecomments = {}
    /\ ng_words = {}
    /\ livecomment_reports = {}
    /\ users = {[id |-> u, name |-> UserNames[u]] : u \in Users}
    /\ themes = {[id |-> u, user_id |-> u, dark_mode |-> FALSE] : u \in Users}
    /\ icons = {}
    /\ autoinc = [livecomments |-> 1, ng_words |-> 1, livecomment_reports |-> 1,
                  users |-> Cardinality(Users) + 1, icons |-> 1]
    /\ now = 0
    /\ txs = [c \in Conns |-> IdleTx]
    /\ dbConnUnsafe \in BOOLEAN

\* the requests of the sets posts and moderations, served on the connections
\* conns
Step(conns, posts, moderations) ==
    \E c \in conns :
        \/ \E req \in posts : BeginPost(c, req)
        \/ \E req \in moderations : BeginModerate(c, req)
        \/ Commit(c)
        \/ \E step \in AbortSteps("post") \cup AbortSteps("moderate") : Abort(c, step)

\* Moderation, requests served one at a time: every moderate request, and the
\* comments of one viewer who never tips
ViewerPosts == {req \in PostRequests : req.user = 2 /\ req.tip = 0}

Next == Step({"c1"}, ViewerPosts, ModerateRequests)

Spec == Init /\ [][Next]_vars

\* Submission, requests served one at a time: every post request while the
\* clock runs, and the owner of stream 1 banning one phrase
OwnerBans == {req \in ModerateRequests :
                req.user = 1 /\ req.stream = 1 /\ req.text = <<"a">>}

NextPost == Step({"c1"}, PostRequests, OwnerBans) \/ Tick

SpecPost == Init /\ [][NextPost]_vars

\* Two requests in flight on stream 1: its owner bans phrases while a viewer
\* comments
RacingPosts == {req \in ViewerPosts : req.stream = 1}
RacingBans == OwnerBans

NextConc == Step(Conns, RacingPosts, RacingBans)

SpecConc == Init /\ [][NextConc]_vars

\* reports of both users, under every stream id, against comments of stream 1
\* and against ids that are not there, while a viewer posts to the stream and
\* its owner bans
ReportedPosts == {req \in RacingPosts : req.text \in {<<"a">>, <<"A">>}}
ReportRequests ==
    ReportRequestsOf({LoggedIn(u) : u \in Users}, StreamIds,
                     1..(MaxComments + 1))

NextReport ==
    \/ Step({"c1"}, ReportedPosts, OwnerBans)
    \/ \E req \in ReportRequests : BeginReport("c1", req)
    \/ \E step \in AbortSteps("report") : Abort("c1", step)

SpecReport == Init /\ [][NextReport]_vars

\* listings of the streams, with every value of limit, between the posts of a
\* viewer and the bans of the owner of stream 1
ListedPosts ==
    {req \in ViewerPosts :
        req.stream \in {1, 2} /\ req.text \in {<<"a">>, <<"A">>}}
ListRequests == ListRequestsOf({LoggedIn(2)}, {1, 2})

NextList ==
    \/ Step({"c1"}, ListedPosts, OwnerBans)
    \/ \E req \in ListRequests : BeginList("c1", req)
    \/ FinishList("c1", "REPEATABLE-READ")
    \/ Tick

SpecList == Init /\ [][NextList]_vars

\* a listing of stream 1 on one connection while the other serves posts and
\* bans, the server running transactions at READ COMMITTED
NextReadCommitted ==
    \/ Step(Conns, {req \in RacingPosts : req.text = <<"a">>}, RacingBans)
    \/ \E c \in Conns :
          \E req \in {r \in ListRequests : r.stream = 1 /\ r.limit = <<>>} :
              BeginList(c, req)
    \/ \E c \in Conns : FinishList(c, "READ-COMMITTED")

SpecReadCommitted == Init /\ [][NextReadCommitted]_vars

\* the same under REPEATABLE READ, the default of the server
NextRepeatableRead ==
    \/ Step(Conns, {req \in RacingPosts : req.text = <<"a">>}, RacingBans)
    \/ \E c \in Conns :
          \E req \in {r \in ListRequests : r.stream = 1 /\ r.limit = <<>>} :
              BeginList(c, req)
    \/ \E c \in Conns : FinishList(c, "REPEATABLE-READ")

SpecRepeatableRead == Init /\ [][NextRepeatableRead]_vars

\* registrations, icon uploads and profile lookups, with a comment of user 2
\* on stream 1 and reports of it by user 1
ProfilePosts ==
    {req \in RacingPosts : req.text = <<"a">>}
ProfileReports == ReportRequestsOf({LoggedIn(1)}, {1}, {1})
ProfileSessions == {LoggedIn(u) : u \in Users}

NextUser ==
    \/ Step({"c1"}, ProfilePosts, OwnerBans)
    \/ \E req \in ProfileReports : BeginReport("c1", req)
    \/ \E req \in RegisterRequestsOf({"pipe", UserNames[Cardinality(Users) + 1]}) :
          BeginRegister("c1", req)
    \/ \E req \in IconRequestsOf(ProfileSessions) : BeginPostIcon("c1", req)
    \/ InsertIcon("c1", "REPEATABLE-READ")
    \/ \E req \in UserRequestsOf(ProfileSessions, {""}) : GetMe("c1", req)
    \/ \E req \in UserRequestsOf({LoggedIn(1)},
                                  {UserNames[2], UserNames[Cardinality(Users) + 1]}) :
          GetUser("c1", req)
    \/ \E step \in AbortSteps("report") \cup AbortSteps("register")
                      \cup AbortSteps("icon") : Abort("c1", step)

SpecUser == Init /\ [][NextUser]_vars

\* every operation on comments and phrases, one request at a time: posts of
\* user 2 to stream 1, registrations for stream 1 by both users, reports and
\* listings of the stream, listings of its phrases
FrameBans == {req \in ModerateRequests : req.stream = 1 /\ req.text = <<"a">>}

NextFrame ==
    \/ Step({"c1"}, ProfilePosts, FrameBans)
    \/ \E req \in ProfileReports : BeginReport("c1", req)
    \/ \E step \in AbortSteps("report") : Abort("c1", step)
    \/ \E req \in {r \in ListRequests : r.stream = 1} : BeginList("c1", req)
    \/ FinishList("c1", "REPEATABLE-READ")
    \/ \E req \in NgwordsRequestsOf({LoggedIn(u) : u \in Users}, {1}) :
          GetNgwords("c1", req)

SpecFrame == Init /\ [][NextFrame]_vars

\* icon uploads of both users with two requests in flight
NextIcons(isolation) ==
    \E c \in Conns :
        \/ \E req \in IconRequestsOf(ProfileSessions) : BeginPostIcon(c, req)
        \/ InsertIcon(c, isolation)
        \/ Commit(c)
        \/ \E step \in AbortSteps("icon") : Abort(c, step)

SpecIconsReadCommitted == Init /\ [][NextIcons("READ-COMMITTED")]_vars

SpecIconsRepeatableRead == Init /\ [][NextIcons("REPEATABLE-READ")]_vars

\* the four handlers behind verifyUserSession, called with every kind of
\* session while the clock runs
SessionPosts ==
    {req \in PostRequestsOf(Sessions) :
        req.stream = 1 /\ req.text = <<"a">> /\ req.tip = 0}
SessionBans ==
    {req \in ModerateRequestsOf(Sessions) : req.stream = 1 /\ req.text = <<"a">>}

NextSession ==
    \/ Step({"c1"}, SessionPosts, SessionBans)
    \/ \E req \in ReportRequestsOf(Sessions, {1}, {1}) : BeginReport("c1", req)
    \/ \E step \in AbortSteps("report") : Abort("c1", step)
    \/ \E req \in NgwordsRequestsOf(Sessions, {1}) : GetNgwords("c1", req)
    \/ Tick

SpecSession == Init /\ [][NextSession]_vars

----------------------------------------------------------------------------
(* Vocabulary of the claims *)

\* the phrases registered for a stream
RegisteredPhrases(streamId) ==
    {w.word : w \in {x \in ng_words : x.livestream_id = streamId}}

StreamExists(streamId) == \E l \in livestreams : l.id = streamId

Lower(ch) == IF ch = "A" THEN "a" ELSE ch

\* body contains word when letter case is ignored
ContainsIgnoringCase(body, word) ==
    \E i \in 0..(Len(body) - Len(word)) :
        \A k \in 1..Len(word) : Lower(body[i + k]) = Lower(word[k])

\* the characters of word occur in body in this order
RECURSIVE IsSubsequence(_, _)
IsSubsequence(word, body) ==
    IF word = <<>> THEN TRUE
    ELSE IF body = <<>> THEN FALSE
    ELSE IF Head(word) = Head(body) THEN IsSubsequence(Tail(word), Tail(body))
    ELSE IsSubsequence(word, Tail(body))

\* body holds phrase only in another letter case, or only with other
\* characters inserted inside it
NearMiss(body, phrase) ==
    /\ phrase # <<>>
    /\ ~Contains(body, phrase)
    /\ ContainsIgnoringCase(body, phrase) \/ IsSubsequence(phrase, body)

\* a post request that was answered, other than with a server error
AnsweredPost(tx) ==
    /\ tx.op = "post"
    /\ tx.pc = "done"
    /\ tx.resp.status # StatusInternalServerError

Stored(req) ==
    \E lc \in livecomments :
        /\ lc.user_id = req.user /\ lc.livestream_id = req.stream
        /\ lc.comment = req.text /\ lc.tip = req.tip

----------------------------------------------------------------------------
(* C1: a body that contains a phrase registered for the stream, letter for
   letter, is rejected (status 400) and no comment is stored; a body that
   holds a registered phrase only in another letter case or only split by
   other characters, and contains no registered phrase, is accepted. Stated
   of every answered submission to an existing stream, requests served one
   at a time. *)
C1_ExactRejectedNearMissAccepted ==
    \A c \in Conns :
        LET tx == txs[c]
            phrases == RegisteredPhrases(tx.req.stream)
        IN  AnsweredPost(tx) /\ StreamExists(tx.req.stream) =>
              /\ (\E p \in phrases : Contains(tx.req.text, p)) =>
                    /\ tx.resp.status = StatusBadRequest
                    /\ tx.newComments = {}
              /\ ( /\ \E p \in phrases : NearMiss(tx.req.text, p)
                   /\ \A q \in phrases : ~Contains(tx.req.text, q) ) =>
                    tx.resp.status = StatusCreated

(* C7: with requests served one at a time, no stored comment of a stream
   contains a phrase registered for that stream. *)
C7_NoStoredCommentContainsPhrase ==
    \A lc \in livecomments :
        \A p \in RegisteredPhrases(lc.livestream_id) : ~Contains(lc.comment, p)

(* C9: the matcher is literal containment of a non-empty phrase: a submission
   to an existing stream is rejected as spam exactly when its body contains a
   non-empty registered phrase, and the purge of a registration takes exactly
   the comments of the stream that contain a non-empty phrase of the stream,
   the new one included. *)
C9_MatcherIsLiteralContainment ==
    \A c \in Conns :
        LET tx == txs[c]
            literal(body, phrases) ==
                \E p \in phrases : p # <<>> /\ Contains(body, p)
        IN  /\ AnsweredPost(tx) /\ StreamExists(tx.req.stream) =>
                ( tx.resp.status = StatusBadRequest
                    <=> literal(tx.req.text, RegisteredPhrases(tx.req.stream)) )
            /\ tx.op = "moderate" /\ tx.pc = "open" =>
                tx.deleted =
                    {lc.id : lc \in {x \in livecomments :
                        /\ x.livestream_id = tx.req.stream
                        /\ literal(x.comment,
                             RegisteredPhrases(tx.req.stream) \cup {tx.req.text})}}

----------------------------------------------------------------------------
(* Steps of a request, as seen in a pair of states *)

\* the transaction of connection c commits in this step
Commits(c) ==
    /\ txs[c].pc = "open" /\ txs'[c].pc = "done"
    /\ txs'[c].resp.status = StatusCreated

\* the transaction of connection c is rolled back in this step
RollsBack(c) ==
    /\ txs[c].pc = "open" /\ txs'[c].pc = "done"
    /\ txs'[c].resp.status = StatusInternalServerError

\* connection c takes a new request in this step
TakesRequest(c) == txs[c].pc # "open" /\ txs'[c] # txs[c]

Owns(user, streamId) ==
    \E l \in livestreams : l.id = streamId /\ l.user_id = user

TablesUnchanged ==
    /\ livecomments' = livecomments
    /\ ng_words' = ng_words
    /\ livecomment_reports' = livecomment_reports
    /\ accounts' = accounts

(* C2 as claimed: when a registration of phrase P for stream S commits, every
   comment of S that contained P is gone and every comment of S that did not
   contain P is still there, unchanged. *)
C2_PurgeTakesExactlyContaining ==
    [][\A c \in Conns :
        txs[c].op = "moderate" /\ Commits(c) =>
            \A lc \in livecomments :
                lc.livestream_id = txs[c].req.stream =>
                    IF Contains(lc.comment, txs[c].req.text)
                    THEN lc \notin livecomments'
                    ELSE lc \in livecomments']_vars

(* C3 as claimed: also when a registration and a submission on the same stream
   overlap, no committed state holds a comment of a stream that contains a
   phrase whose registration for that stream has committed. *)
C3_NoBannedCommentAfterRegistration ==
    \A w \in ng_words :
        \A lc \in livecomments :
            lc.livestream_id = w.livestream_id => ~Contains(lc.comment, w.word)

(* C4 as claimed: a registration by a user who does not own the stream is
   answered with Forbidden (403) and changes neither table. *)
C4_NonOwnerForbidden ==
    [][\A c \in Conns :
        ( /\ TakesRequest(c)
          /\ txs'[c].op = "moderate"
          /\ ~Owns(txs'[c].req.user, txs'[c].req.stream) ) =>
            /\ txs'[c].pc = "done"
            /\ txs'[c].resp.status = StatusForbidden
            /\ TablesUnchanged]_vars

(* C4 as amended: a registration by a user who does not own the stream, whether
   the stream is another user's or does not exist, is answered at once with
   Bad Request (400) and changes neither table. *)
C4_NonOwnerBadRequest ==
    [][\A c \in Conns :
        ( /\ TakesRequest(c)
          /\ txs'[c].op = "moderate"
          /\ ~Owns(txs'[c].req.user, txs'[c].req.stream) ) =>
            /\ txs'[c].pc = "done"
            /\ txs'[c].resp.status = StatusBadRequest
            /\ txs'[c].newWords = {} /\ txs'[c].deleted = {}
            /\ TablesUnchanged]_vars

C4_Witness ==
    \E c \in Conns :
        /\ txs[c].op = "moderate" /\ txs[c].pc = "done"
        /\ txs[c].req.user = 1 /\ txs[c].req.stream = 2
        /\ txs[c].resp.status = StatusBadRequest
        /\ \E lc \in livecomments :
              /\ lc.livestream_id = 2
              /\ hitSpam(lc.comment, txs[c].req.text) >= 1
        /\ ng_words # {}

(* C5: a registration is all or nothing. A step of a registration either
   leaves both tables as they were (the transaction is open, or is rolled back
   after a failure at some statement behind the phrase insert), or commits, and
   then the phrase row is in the phrase table and every comment of the stream
   that the matcher finds to match the new phrase is gone. *)
C5_RegistrationAllOrNothing ==
    [][\A c \in Conns :
        (txs'[c].op = "moderate" /\ txs'[c] # txs[c]) =>
            IF Commits(c)
            THEN /\ txs[c].newWords # {}
                 /\ txs[c].newWords \subseteq ng_words'
                 /\ \A lc \in livecomments :
                       ( /\ lc.livestream_id = txs[c].req.stream
                         /\ hitSpam(lc.comment, txs[c].req.text) >= 1 ) =>
                             lc \notin livecomments'
            ELSE TablesUnchanged]_vars

C5_Witness ==
    \E c \in Conns :
        /\ txs[c].op = "moderate" /\ txs[c].pc = "done"
        /\ txs[c].resp =
             HTTPError(StatusInternalServerError,
                       "failed to delete old livecomments that hit spams")
        /\ \E lc \in livecomments : lc.id \in txs[c].deleted
        /\ txs[c].newWords # {}
        /\ txs[c].newWords \cap ng_words = {}

(* C6: the purge of a registration for stream S is scoped to S: when it
   commits, every comment of another stream is still there, also when its body
   matches the new phrase. *)
C6_PurgeScopedToStream ==
    [][\A c \in Conns :
        txs[c].op = "moderate" /\ Commits(c) =>
            \A lc \in livecomments :
                lc.livestream_id # txs[c].req.stream => lc \in livecomments']_vars

C6_Witness ==
    \E c \in Conns :
        /\ txs[c].op = "moderate" /\ txs[c].pc = "done"
        /\ txs[c].resp.status = StatusCreated
        /\ txs[c].deleted # {}
        /\ \E lc \in livecomments :
              /\ lc.livestream_id # txs[c].req.stream
              /\ hitSpam(lc.comment, txs[c].req.text) >= 1

(* C8 as claimed: a submission to an existing stream whose body the matcher
   finds to match no phrase registered for the stream succeeds: the handler
   runs its statements without an error and holds the answer 201; when its
   transaction commits, exactly one comment was added, with a fresh id, the
   caller as author, the stream, body and tip of the request and a time not
   after the commit, and the response carries it; a stored comment is listed
   for its stream, unchanged, in every later state until the purge of a
   registration for its stream removes it. *)
C8_AcceptedSubmissionIsStored ==
    [][ /\ \A c \in Conns :
            ( /\ TakesRequest(c) /\ txs'[c].op = "post"
              /\ StreamExists(txs'[c].req.stream)
              /\ \A p \in RegisteredPhrases(txs'[c].req.stream) :
                    hitSpam(txs'[c].req.text, p) = 0 ) =>
                /\ txs'[c].pc = "open"
                /\ txs'[c].resp.status = StatusCreated
        /\ \A c \in Conns :
            txs[c].op = "post" /\ Commits(c) =>
                \E lc \in livecomments' :
                    /\ livecomments' = livecomments \cup {lc}
                    /\ \A old \in livecomments : old.id # lc.id
                    /\ lc.user_id = txs[c].req.user
                    /\ lc.livestream_id = txs[c].req.stream
                    /\ lc.comment = txs[c].req.text
                    /\ lc.tip = txs[c].req.tip
                    /\ lc.created_at <= now
                    /\ txs'[c].resp.body = fillLivecommentResponse(
                          CHOOSE d \in getLivecommentData(livecomments', lc.id) : TRUE)
        /\ \A lc \in livecomments :
            \/ /\ lc \in livecomments'
               /\ fillLivecommentResponse(
                     CHOOSE d \in getLivecommentData(livecomments', lc.id) : TRUE)
                    \in getLivecomments(livecomments', lc.livestream_id)
            \/ \E c \in Conns :
                  /\ txs[c].op = "moderate" /\ Commits(c)
                  /\ txs[c].req.stream = lc.livestream_id
                  /\ lc.id \in txs[c].deleted ]_vars

(* C10 as claimed: a successful registration answers, with the id of the new
   phrase, a purgedCount equal to the number of comments the call removed. *)
C10_AnswersPurgedCount ==
    \A c \in Conns :
        ( /\ txs[c].op = "moderate" /\ txs[c].pc = "done"
          /\ txs[c].resp.status = StatusCreated ) =>
            /\ "word_id" \in DOMAIN txs[c].resp.body
            /\ "purgedCount" \in DOMAIN txs[c].resp.body
            /\ txs[c].resp.body.purgedCount = Cardinality(txs[c].deleted)

(* C10 as amended: a successful registration answers the id of the new phrase
   row and nothing else (no purge count); the comments it removes are the
   comments of the stream that the matcher finds to match a phrase of the
   stream's banned set, the new phrase included, each removed once. *)
C10_AnswersWordIdOnly ==
    [][\A c \in Conns :
        txs[c].op = "moderate" /\ Commits(c) =>
            LET S == txs[c].req.stream
                banned == ModerateNGWords(ng_words', S)
                removed == livecomments \ livecomments'
            IN  /\ DOMAIN txs'[c].resp.body = {"word_id"}
                /\ \E w \in ng_words' \ ng_words :
                      /\ w.id = txs'[c].resp.body.word_id
                      /\ w.word = txs[c].req.text
                      /\ w.livestream_id = S
                      /\ w.user_id = txs[c].req.user
                /\ removed = {lc \in livecomments :
                                /\ lc.livestream_id = S
                                /\ \E w \in banned : hitSpam(lc.comment, w.word) >= 1}
                /\ Cardinality(removed) = Cardinality(txs[c].deleted)
                /\ livecomments' \subseteq livecomments]_vars

C10_Witness ==
    \E c \in Conns :
        /\ txs[c].op = "moderate" /\ txs[c].pc = "done"
        /\ txs[c].resp = [status |-> StatusCreated, body |-> [word_id |-> 2]]
        /\ Cardinality(txs[c].deleted) = 2
        /\ Cardinality(ng_words) = 2
        /\ livecomments = {}

(* C11: a report against a comment id that is not in the comment table (never
   handed out, or of a comment that a purge removed) by a caller with a valid
   session is answered 404 at once, and the report table and the other tables
   are as before the call. *)
C11_ReportOfMissingCommentNotFound ==
    [][\A c \in Conns :
        ( /\ TakesRequest(c) /\ txs'[c].op = "report"
          /\ verifyUserSession(txs'[c].req.sess, now) = NoResponse
          /\ \A lc \in livecomments : lc.id # txs'[c].req.livecomment ) =>
            /\ txs'[c].pc = "done"
            /\ txs'[c].resp.status = StatusNotFound
            /\ txs'[c].newReports = {}
            /\ autoinc' = autoinc
            /\ TablesUnchanged]_vars

C11_Witness ==
    \E c \in Conns :
        /\ txs[c].op = "report" /\ txs[c].pc = "done"
        /\ txs[c].resp = HTTPError(StatusNotFound, "livecomment not found")
        /\ txs[c].req.livecomment < autoinc.livecomments
        /\ \A lc \in livecomments : lc.id # txs[c].req.livecomment
        /\ livecomment_reports # {}

(* C19: repeated reports are permitted. A report by a caller with a valid
   session against an existing comment, on an existing stream, is never
   refused, whatever reports the table holds; each report that commits adds
   exactly one row, whose id no other row has, so k such reports by one user
   against one comment leave k rows. *)
C19_RepeatedReportsStored ==
    [][\A c \in Conns :
        /\ ( /\ TakesRequest(c) /\ txs'[c].op = "report"
             /\ verifyUserSession(txs'[c].req.sess, now) = NoResponse
             /\ StreamExists(txs'[c].req.stream)
             /\ \E lc \in livecomments : lc.id = txs'[c].req.livecomment ) =>
                /\ txs'[c].pc = "open"
                /\ txs'[c].resp.status = StatusCreated
        /\ (txs[c].op = "report" /\ Commits(c)) =>
                \E r \in livecomment_reports' :
                    /\ livecomment_reports' = livecomment_reports \cup {r}
                    /\ \A old \in livecomment_reports : old.id # r.id
                    /\ r.user_id = txs[c].req.user
                    /\ r.livecomment_id = txs[c].req.livecomment
                    /\ txs'[c].resp.body.id = r.id]_vars

C19_Witness ==
    \E r1, r2 \in livecomment_reports :
        /\ r1.id # r2.id
        /\ r1.user_id = r2.user_id
        /\ r1.livecomment_id = r2.livecomment_id
        /\ \E c \in Conns :
              /\ txs[c].op = "report" /\ txs[c].pc = "done"
              /\ txs[c].resp.status = StatusCreated
              /\ txs[c].resp.body.id = r2.id

(* C12: submit-comment, register-phrase, list-phrases and file-report called
   with a session that verifyUserSession refuses (session.Get failed, no
   EXPIRES value, no USERID value, or an expiry earlier than the current time)
   are answered at once with 401 or 403, the answer of the session check
   itself, and no table, counter or transaction is touched. *)
C12_BadSessionRefusedBeforeStore ==
    [][\A c \in Conns :
        ( /\ TakesRequest(c)
          /\ \/ txs'[c].req.sess.err
             \/ ~txs'[c].req.sess.hasExpires
             \/ ~txs'[c].req.sess.hasUserID
             \/ txs'[c].req.sess.expires < now ) =>
            /\ txs'[c].op \in {"post", "moderate", "ngwords", "report"}
            /\ txs'[c].pc = "done"
            /\ txs'[c].resp.status \in {StatusUnauthorized, StatusForbidden}
            /\ txs'[c].newComments = {} /\ txs'[c].newWords = {}
            /\ txs'[c].newReports = {} /\ txs'[c].deleted = {}
            /\ autoinc' = autoinc
            /\ TablesUnchanged]_vars

C12_Witness ==
    \E c \in Conns :
        /\ txs[c].op = "moderate" /\ txs[c].pc = "done"
        /\ txs[c].resp = HTTPError(StatusUnauthorized, "session has expired")
        /\ txs[c].req.sess.userID = 1 /\ txs[c].req.stream = 1
        /\ \E w \in ng_words : w.user_id = 1 /\ w.created_at < now
        /\ \A lc \in livecomments : hitSpam(lc.comment, txs[c].req.text) >= 1

(* Listing responses, as the claims speak of them *)

\* the response of a listing that was answered with a list
Listing(tx) == tx.op = "list" /\ tx.pc = "done" /\ tx.resp.status = StatusOK

\* newest first, and of two comments of one timestamp the higher id first
NewestFirst(list) ==
    \A i, j \in 1..Len(list) :
        i < j => \/ list[i].created_at > list[j].created_at
                 \/ /\ list[i].created_at = list[j].created_at
                    /\ list[i].id > list[j].id

(* C13 as claimed: the comments a listing returns are ordered by creation
   timestamp descending, and two comments of one timestamp come in descending
   id order. *)
C13_ListedNewestFirstTiesById ==
    \A c \in Conns : Listing(txs[c]) => NewestFirst(txs[c].resp.body.list)

(* C14 as claimed: a listing of stream S by a caller with a valid session,
   with limit absent or a number n >= 0, is answered with a list and not an
   error; the list holds only comments of S, is the whole ordered sequence of
   them when limit is absent and its first min(n, count) elements otherwise,
   so it is empty for limit 0 and for a stream without comments. Checked when
   the listing is answered, requests served one at a time. *)
C14_ListReturnsFirstOfStream ==
    \A c \in Conns :
        LET tx == txs[c]
            limit == Atoi(tx.req.limit)
            ofStream == {lc \in livecomments : lc.livestream_id = tx.req.stream}
            count == Cardinality(ofStream)
            n == IF tx.req.limit = <<>> THEN count ELSE Min(limit.n, count)
        IN  ( /\ tx.op = "list" /\ tx.pc = "done"
              /\ verifyUserSession(tx.req.sess, now) = NoResponse
              /\ tx.req.limit = <<>> \/ (~limit.err /\ limit.n >= 0) ) =>
                /\ tx.resp.status = StatusOK
                /\ Len(tx.resp.body.list) = n
                /\ NewestFirst(tx.resp.body.list)
                /\ \A i \in 1..n :
                      /\ \E lc \in ofStream :
                            /\ lc.id = tx.resp.body.list[i].id
                            /\ lc.comment = tx.resp.body.list[i].comment
                            /\ lc.tip = tx.resp.body.list[i].tip
                      /\ tx.resp.body.list[i].livestream.id = tx.req.stream
                      /\ \A lc \in ofStream :
                            (\A k \in 1..n : tx.resp.body.list[k].id # lc.id) =>
                                \/ lc.created_at < tx.resp.body.list[i].created_at
                                \/ /\ lc.created_at = tx.resp.body.list[i].created_at
                                   /\ lc.id < tx.resp.body.list[i].id

(* C15 as claimed: a listing by a caller with a valid session whose limit is
   present and is not a non-negative integer (a negative number, or not a
   number) is answered with 400. *)
C15_BadLimitInvalidArgument ==
    \A c \in Conns :
        LET tx == txs[c]
            limit == Atoi(tx.req.limit)
        IN  ( /\ tx.op = "list" /\ tx.pc = "done"
              /\ verifyUserSession(tx.req.sess, now) = NoResponse
              /\ tx.req.limit # <<>>
              /\ limit.err \/ limit.n < 0 ) =>
                tx.resp.status = StatusBadRequest

(* C20 as claimed: when the lookup of the joined row of a comment just listed
   or inserted, or of a report just inserted, finds no row, the request is
   answered with 500 and never with 404: no listing, submission or report is
   answered with the 404 of a secondary lookup. *)
C20_SecondaryLookupInternal ==
    \A c \in Conns :
        ( /\ txs[c].op \in {"list", "post", "report"}
          /\ txs[c].pc = "done" ) =>
            txs[c].resp \notin
                {HTTPError(StatusNotFound,
                           "not found livecomment with the specified ID"),
                 HTTPError(StatusNotFound,
                           "not found livecomment report with the specified ID")}

(* C18: every stored comment's stream id is the id of an existing stream and
   its user id the id of an existing user; a submission to a stream id that
   does not exist is answered with an error at once and stores no comment. *)
C18_CommentsReferToStreamAndUser ==
    [][ /\ \A lc \in livecomments' :
              /\ StreamExists(lc.livestream_id)
              /\ lc.user_id \in Users
        /\ \A c \in Conns :
            ( /\ TakesRequest(c) /\ txs'[c].op = "post"
              /\ ~StreamExists(txs'[c].req.stream) ) =>
                /\ txs'[c].pc = "done"
                /\ txs'[c].resp.status = StatusNotFound
                /\ txs'[c].newComments = {}
                /\ autoinc' = autoinc
                /\ TablesUnchanged ]_vars

C18_Witness ==
    \E c \in Conns :
        /\ txs[c].op = "post" /\ txs[c].pc = "done"
        /\ txs[c].resp = HTTPError(StatusNotFound, "livestream not found")
        /\ ~StreamExists(txs[c].req.stream)
        /\ txs[c].req.tip = 1
        /\ \E lc \in livecomments : lc.user_id = txs[c].req.user
        /\ \A lc \in livecomments : lc.livestream_id # txs[c].req.stream

----------------------------------------------------------------------------
(* Profiles in responses, as the claims speak of them *)

\* the profiles a response embeds
ProfilesIn(tx) ==
    IF tx.pc = "idle" \/ tx.resp.status \notin {StatusOK, StatusCreated}
    THEN {}
    ELSE IF tx.op \in {"me", "user", "register"}
    THEN {tx.resp.body}
    ELSE IF tx.op = "post"
    THEN {tx.resp.body.user}
    ELSE IF tx.op = "report"
    THEN {tx.resp.body.reporter, tx.resp.body.livecomment.user}
    ELSE IF tx.op = "list"
    THEN {tx.resp.body.list[i].user : i \in 1..Len(tx.resp.body.list)}
    ELSE {}

\* the stored avatars of a user
AvatarsOf(userID) == {i.image : i \in {x \in icons : x.user_id = userID}}

\* the hash the avatar of a user has: of the stored bytes when there are some,
\* of the fallback image otherwise
AvatarHashes(userID) ==
    IF AvatarsOf(userID) \subseteq {<<>>}
    THEN {Sha256Hex(FallbackImageBytes)}
    ELSE {Sha256Hex(image) : image \in AvatarsOf(userID) \ {<<>>}}

(* C16 as claimed: while the avatar of a user is unchanged, the profile of
   that user in a response (of a comment's author, of a report's reporter or
   comment author, of a lookup, of the registration) carries the IconHash that
   the lookup of the user by id and by name gives. *)
C16_SameIconHashOnEveryPath ==
    \A c \in Conns :
        \A profile \in ProfilesIn(txs[c]) :
            \A u \in {x \in users : x.id = profile.id} :
                \A other \in fetchUserDetailsByID(u.id)
                                \cup fetchUserDetailsByName(u.name) :
                    other.icon_hash = profile.icon_hash

(* C17 as claimed: the IconHash of a profile, in a response or as one of the
   profile functions gives it, is the hash of the user's stored avatar when
   there is one that is not empty and the hash of the fallback image
   otherwise; it is never the hash of the empty byte string. *)
C17_IconHashOfAvatarOrFallback ==
    /\ \A c \in Conns :
          \A profile \in ProfilesIn(txs[c]) :
              (\E u \in users : u.id = profile.id) =>
                  /\ profile.icon_hash \in AvatarHashes(profile.id)
                  /\ profile.icon_hash # Sha256Hex(<<>>)
    /\ \A u \in users :
          \A profile \in {fillUserResponse(icons, u)}
                            \cup fetchUserDetailsByIDForReaction(u.id) :
              /\ profile.icon_hash \in AvatarHashes(u.id)
              /\ profile.icon_hash # Sha256Hex(<<>>)

(* C21 as claimed: every stored comment has a tip of at least 0; a submission
   with a negative tip is never stored. *)
C21_NoNegativeTipStored ==
    \A lc \in livecomments : lc.tip >= 0

(* C22: a submission and a report are each all or nothing. A step of either
   leaves the comment table and the report table as they were, unless it is
   the commit that answers 201, and then the inserted row is in its table; a
   failure at a statement behind the insert, the commit included, rolls the
   row back. A row enters either table only by such a commit. *)
C22_PostAndReportAllOrNothing ==
    [][ /\ \A c \in Conns :
              (txs'[c].op \in {"post", "report"} /\ txs'[c] # txs[c]) =>
                  IF Commits(c)
                  THEN /\ txs[c].newComments \cup txs[c].newReports # {}
                       /\ livecomments' = livecomments \cup txs[c].newComments
                       /\ livecomment_reports' =
                             livecomment_reports \cup txs[c].newReports
                  ELSE /\ livecomments' = livecomments
                       /\ livecomment_reports' = livecomment_reports
        /\ \A row \in (livecomments' \ livecomments)
                         \cup (livecomment_reports' \ livecomment_reports) :
              \E c \in Conns :
                  /\ Commits(c)
                  /\ row \in txs[c].newComments \cup txs[c].newReports ]_vars

\* a report rolled back behind its insert, of a comment committed before, and
\* the report row is not stored
C22_Witness ==
    \E c \in Conns :
        /\ txs[c].op = "report" /\ txs[c].pc = "done"
        /\ txs[c].resp.status = StatusInternalServerError
        /\ txs[c].newReports # {}
        /\ txs[c].newReports \cap livecomment_reports = {}
        /\ \E lc \in livecomments : lc.id = txs[c].req.livecomment

(* C23 as claimed: a listing of a stream that runs while a registration for
   the stream is in flight reads, of the comments in its view that the
   registration removes, every one or none; and it is answered with the
   comments it read, not with the error of a listed comment that is no longer
   found. *)
C23_ListingSeesWholePurge ==
    \A c \in Conns :
        LET tx == txs[c]
            read == {tx.listed[i].id : i \in 1..Len(tx.listed)}
        IN  /\ (tx.op = "list" /\ tx.pc = "listing") =>
                  \A d \in Conns \ {c} :
                      ( /\ txs[d].op = "moderate"
                        /\ txs[d].req.stream = tx.req.stream ) =>
                          LET inView == {lc.id : lc \in
                                           {x \in tx.snapshot :
                                              x.id \in txs[d].deleted}}
                          IN  inView \subseteq read \/ inView \cap read = {}
            /\ (tx.op = "list" /\ tx.pc = "done" /\ tx.listed # <<>>) =>
                  /\ tx.resp #
                        HTTPError(StatusNotFound,
                                  "not found livecomment with the specified ID")
                  /\ Listing(tx) =>
                        read = {tx.resp.body.list[i].id :
                                  i \in 1..Len(tx.resp.body.list)}

\* the comments a response sent embeds
CommentsIn(tx) ==
    IF tx.pc # "done" \/ tx.resp.status \notin {StatusOK, StatusCreated}
    THEN {}
    ELSE IF tx.op = "post"
    THEN {tx.resp.body}
    ELSE IF tx.op = "report"
    THEN {tx.resp.body.livecomment}
    ELSE IF tx.op = "list"
    THEN {tx.resp.body.list[i] : i \in 1..Len(tx.resp.body.list)}
    ELSE {}

(* C24 as claimed: in every comment of a response (of a submission, of a
   listing, or inside a report) the stream shown is the stream of the stored
   comment and the owner shown for it is the user who owns that stream, also
   when another user wrote the comment. *)
C24_StreamOwnerIsOwnerOfStream ==
    \A c \in Conns :
        \A cm \in CommentsIn(txs[c]) :
            /\ \A lc \in livecomments :
                  lc.id = cm.id => cm.livestream.id = lc.livestream_id
            /\ Owns(cm.livestream.owner.id, cm.livestream.id)

(* C25 as claimed: a listing of the phrases of a stream by a caller with a
   valid session is answered 200 with exactly the phrase rows registered for
   the stream, whoever the caller is, and it changes no table. *)
C25_ListsEffectiveBannedSet ==
    [][\A c \in Conns :
        (txs'[c].op = "ngwords" /\ txs'[c] # txs[c]) =>
            /\ TablesUnchanged
            /\ verifyUserSession(txs'[c].req.sess, now) = NoResponse =>
                  /\ txs'[c].resp.status = StatusOK
                  /\ {txs'[c].resp.body.list[i] :
                        i \in 1..Len(txs'[c].resp.body.list)}
                       = {w \in ng_words :
                            w.livestream_id = txs'[c].req.stream}]_vars

(* C26: the phrase rows read at a submission to a stream (user id the
   stream's owner, stream id the stream) are the phrase rows the purge of the
   stream reads (stream id the stream): every phrase row carries the user id
   of the owner of its stream. *)
C26_PhraseRowsBelongToOwner ==
    /\ \A l \in livestreams :
          PostNGWords(ng_words, l) = ModerateNGWords(ng_words, l.id)
    /\ \A w \in ng_words : Owns(w.user_id, w.livestream_id)

\* a stream with a phrase, and a registration for it by another user refused
C26_Witness ==
    \E c \in Conns :
        /\ txs[c].op = "moderate" /\ txs[c].pc = "done"
        /\ txs[c].resp.status = StatusBadRequest
        /\ ~Owns(txs[c].req.user, txs[c].req.stream)
        /\ ModerateNGWords(ng_words, txs[c].req.stream) # {}

(* C27: only a registration removes comments. A stored comment stays in the
   comment table, with its author, stream, body, tip and timestamp, over every
   step of a submission, a listing of comments or of phrases and a report; it
   leaves only by the commit of a registration that purged it. *)
C27_OnlyRegistrationRemovesComments ==
    [][\A lc \in livecomments :
          /\ lc \notin livecomments' =>
                \E c \in Conns :
                    /\ Commits(c) /\ txs[c].op = "moderate"
                    /\ lc.id \in txs[c].deleted
          /\ \A other \in livecomments' : other.id = lc.id => other = lc]_vars

\* a comment that was reported and then listed is still stored
C27_Witness ==
    \E c \in Conns :
        /\ Listing(txs[c])
        /\ \E i \in 1..Len(txs[c].resp.body.list) :
              /\ \E lc \in livecomments : lc.id = txs[c].resp.body.list[i].id
              /\ \E lr \in livecomment_reports :
                    lr.livecomment_id = txs[c].resp.body.list[i].id

(* C28: the phrase table is append-only. Every phrase row stays as it is over
   every step; the table gains exactly one row at the commit of a
   registration and none at any other step, the refusal or the rollback of a
   registration included. *)
C28_PhraseTableAppendOnly ==
    [][ /\ ng_words \subseteq ng_words'
        /\ IF \E c \in Conns : Commits(c) /\ txs[c].op = "moderate"
           THEN Cardinality(ng_words') = Cardinality(ng_words) + 1
           ELSE ng_words' = ng_words ]_vars

\* a registration rolled back behind its insert while an earlier phrase is
\* stored: the table holds the earlier row only
C28_Witness ==
    \E c \in Conns :
        /\ txs[c].op = "moderate" /\ txs[c].pc = "done"
        /\ txs[c].resp.status = StatusInternalServerError
        /\ txs[c].newWords # {}
        /\ txs[c].newWords \cap ng_words = {}
        /\ ng_words # {}

(* C29: every committed user has exactly one theme row. A step of a
   registration leaves the user table and the theme table as they were (the
   transaction is open, or is rolled back after a failure at the theme insert,
   the DNS record command, the response assembly or the commit), or it is the
   commit, and then the user row and its theme row are stored together. *)
C29_UserAndThemeTogether ==
    [][ /\ \A u \in users' :
              Cardinality({t \in themes' : t.user_id = u.id}) = 1
        /\ \A c \in Conns :
              (txs'[c].op = "register" /\ txs'[c] # txs[c]) =>
                  IF Commits(c)
                  THEN /\ txs[c].newUsers # {}
                       /\ users' = users \cup txs[c].newUsers
                       /\ themes' = themes \cup txs[c].newThemes
                  ELSE users' = users /\ themes' = themes ]_vars

\* a registration rolled back at the DNS record command: neither its user row
\* nor its theme row is stored
C29_Witness ==
    \E c \in Conns :
        /\ txs[c].op = "register" /\ txs[c].pc = "done"
        /\ txs[c].resp =
              HTTPError(StatusInternalServerError, "pdnsutil add-record failed")
        /\ txs[c].newUsers # {} /\ txs[c].newThemes # {}
        /\ txs[c].newUsers \cap users = {}
        /\ txs[c].newThemes \cap themes = {}

(* C30 as claimed: the stream id of every stored report is the stream id of
   the comment it reports; a report that names an existing stream other than
   the comment's stores no report. *)
C30_ReportStreamIsCommentStream ==
    \A lr \in livecomment_reports :
        \A lc \in livecomments :
            lc.id = lr.livecomment_id => lr.livestream_id = lc.livestream_id

(* C31: registering a phrase for a stream again is idempotent on comments.
   The commit of a registration by the owner of a phrase that the stream
   already has (the second of two registrations in a row is one) removes no
   comment and leaves the comment table as it was, and the phrase table then
   holds the phrase for the stream in two rows of distinct ids. *)
C31_SecondRegistrationRemovesNothing ==
    [][\A c \in Conns :
        ( /\ Commits(c) /\ txs[c].op = "moderate"
          /\ \E w \in ng_words :
                /\ w.livestream_id = txs[c].req.stream
                /\ w.word = txs[c].req.text ) =>
            /\ txs[c].deleted = {}
            /\ livecomments' = livecomments
            /\ \E w1, w2 \in ng_words' :
                  /\ w1.id # w2.id
                  /\ w1.livestream_id = txs[c].req.stream
                  /\ w2.livestream_id = txs[c].req.stream
                  /\ w1.word = txs[c].req.text
                  /\ w2.word = txs[c].req.text]_vars

\* the second registration of a phrase has committed, a comment is stored and
\* an earlier one is gone
C31_Witness ==
    \E c \in Conns :
        /\ txs[c].op = "moderate" /\ txs[c].pc = "done"
        /\ txs[c].resp.status = StatusCreated
        /\ Cardinality({w \in ng_words :
                          /\ w.livestream_id = txs[c].req.stream
                          /\ w.word = txs[c].req.text}) = 2
        /\ livecomments # {}
        /\ autoinc.livecomments > Cardinality(livecomments) + 1

(* C32 as claimed: with icon uploads interleaved in any way, two uploads of
   one user in flight together included, every user has at most one icon row
   in every committed state, and after the commit of an upload the row of the
   user is the row of that upload. *)
C32_OneIconRowOfLastUpload ==
    [][ /\ \A u \in users' :
              Cardinality({i \in icons' : i.user_id = u.id}) <= 1
        /\ \A c \in Conns :
              (Commits(c) /\ txs[c].op = "icon") =>
                  {i \in icons' : i.user_id = txs[c].req.user}
                      = txs[c].newIcons ]_vars

====
